---- MODULE Spec2Model ----
(***************************************************************************)
(* Model of ray-scripts/train_cpu.py: the module-level pipeline (resolve   *)
(* configuration, read the CSV, fit the scaler, concatenate, build the     *)
(* trainer, fit, export scaler and ONNX model), the per-worker training    *)
(* function train_func, and the S3 bucket the script reads and writes.     *)
(***************************************************************************)
EXTENDS Integers, Sequences, FiniteSets, TLC

VARIABLES
    env,            \* os.environ: variable name -> <<>> (unset) or <<value>>
    store,          \* the bucket bucket_name: key -> object
    store0,         \* the bucket as it was when the script started (history)
    pc,             \* the statement of the module-level pipeline to run next
    failed,         \* an exception was raised by the statement at pc
    config,         \* line 156: the train_loop_config dict
    train_dataset,  \* lines 158-164: the ray dataset
    scaler,         \* line 161: the StandardScaler
    trainer,        \* lines 168-179: <<>> or <<the TensorflowTrainer>>
    workers,        \* the train_func invocations of the running fit()
    reported,       \* metric rank 0 reported in the current round, -1 if none
    checkpoints,    \* checkpoints the run has registered, in report order
    result,         \* line 180: <<>> or <<the Result of trainer.fit()>>
    keras_local,    \* /tmp/model.keras: <<>> or <<object>>
    onnx_local,     \* /tmp/model.onnx: <<>> or <<object>>
    scalerUploads,  \* number of upload_file calls to scaler_output (history)
    modelUploads    \* number of upload_file calls to model_output (history)

vars == <<env, store, store0, pc, failed, config, train_dataset, scaler,
          trainer, workers, reported, checkpoints, result, keras_local,
          onnx_local, scalerUploads, modelUploads>>

(***************************************************************************)
(* Bounds of the model.                                                    *)
(***************************************************************************)
MaxWorkers == 2
MaxEpochs == 2
MaxMetric == 1

(***************************************************************************)
(* Strings: str.lower, int(str), str.removeprefix, zero padding.           *)
(***************************************************************************)
UpperAlpha == "ABCDEFGHIJKLMNOPQRSTUVWXYZ"
LowerAlpha == "abcdefghijklmnopqrstuvwxyz"
Digits == "0123456789"

CharAt(s, i) == SubSeq(s, i, i)

IndexIn(alphabet, c) ==
    IF \E i \in 1..Len(alphabet) : CharAt(alphabet, i) = c
    THEN CHOOSE i \in 1..Len(alphabet) : CharAt(alphabet, i) = c
    ELSE 0

LowerChar(c) ==
    IF IndexIn(UpperAlpha, c) > 0
    THEN CharAt(LowerAlpha, IndexIn(UpperAlpha, c))
    ELSE c

RECURSIVE Lower(_)
Lower(s) ==
    IF Len(s) = 0 THEN ""
    ELSE LowerChar(CharAt(s, 1)) \o Lower(SubSeq(s, 2, Len(s)))

\* int(s) raises ValueError unless s is a numeral (decimal digits here).
IsInt(s) ==
    /\ Len(s) > 0
    /\ \A i \in 1..Len(s) : IndexIn(Digits, CharAt(s, i)) > 0

RECURSIVE IntOf(_)
IntOf(s) ==
    IF Len(s) = 0 THEN 0
    ELSE 10 * IntOf(SubSeq(s, 1, Len(s) - 1))
         + (IndexIn(Digits, CharAt(s, Len(s))) - 1)

RemovePrefix(s, p) ==
    IF Len(s) >= Len(p) /\ SubSeq(s, 1, Len(p)) = p
    THEN SubSeq(s, Len(p) + 1, Len(s))
    ELSE s

RECURSIVE ZeroPad(_, _)
ZeroPad(s, width) == IF Len(s) >= width THEN s ELSE ZeroPad("0" \o s, width)

(***************************************************************************)
(* The environment and the module-level names resolved from it.            *)
(***************************************************************************)
\* LEARNING_RATE stands for a variable a learning rate would be given in; the
\* script reads no variable for it.
EnvNames == {"USE_GPU", "NUM_WORKERS", "NUM_EPOCHS", "BATCH_SIZE",
             "LEARNING_RATE", "AWS_S3_BUCKET", "TRAIN_DATA", "MODEL_OUTPUT",
             "MODEL_OUTPUT_FILENAME"}

Unset == <<>>
IsSet(name) == env[name] # Unset

\* os.environ.get(name, default)
EnvGet(name, default) == IF env[name] = Unset THEN default ELSE env[name][1]

\* faulty variant: the comparison without .lower()
use_gpu_CaseSensitive == EnvGet("USE_GPU", "False") = "true"

use_gpu == Lower(EnvGet("USE_GPU", "False")) = "true"
num_workers == IntOf(EnvGet("NUM_WORKERS", "1"))
num_epochs == IntOf(EnvGet("NUM_EPOCHS", "2"))
batch_size == IntOf(EnvGet("BATCH_SIZE", "64"))
\* 1e-3, in units of 1e-3; no environment variable is read for it
learning_rate == 1

\* lines 24-26: each int() of the three raises on a non-numeral
ConfigParses ==
    /\ IsInt(EnvGet("NUM_WORKERS", "1"))
    /\ IsInt(EnvGet("NUM_EPOCHS", "2"))
    /\ IsInt(EnvGet("BATCH_SIZE", "64"))

\* AWS_S3_BUCKET is set in every environment considered
bucket_name == EnvGet("AWS_S3_BUCKET", "")
train_data == EnvGet("TRAIN_DATA", "data/train.csv")
keras_model_filename == "model.keras"
model_output_prefix == EnvGet("MODEL_OUTPUT", "models/fraud/1/")
model_output_filename == EnvGet("MODEL_OUTPUT_FILENAME", "model.onnx")
scaler_output == model_output_prefix \o "scaler.pkl"
model_output == model_output_prefix \o model_output_filename

(***************************************************************************)
(* The bucket: a function from the keys present to objects.                *)
(***************************************************************************)
Obj(kind, v) == [kind |-> kind, v |-> v]
Absent == Obj("absent", 0)

Get(s, key) == IF key \in DOMAIN s THEN s[key] ELSE Absent

Put(s, key, obj) ==
    [k \in DOMAIN s \cup {key} |-> IF k = key THEN obj ELSE s[k]]

EmptyStore == [k \in {} |-> Absent]

\* The run's storage directory: RunConfig(storage_path, name) and the trial
\* directory the framework creates under it.
storage_path == bucket_name \o "/ray/"
run_name == "fraud-training"
trial_dir == "TensorflowTrainer_trial"

\* Checkpoint.path of the checkpoint with the given index
CheckpointPath(index) ==
    storage_path \o run_name \o "/" \o trial_dir
        \o "/checkpoint_" \o ZeroPad(ToString(index), 6)

\* line 140
cp_s3_key(checkpoint_path) ==
    RemovePrefix(checkpoint_path, bucket_name \o "/")
        \o "/" \o keras_model_filename

\* The key, inside the bucket, a worker's checkpoint file is persisted at:
\* the storage filesystem addresses objects as <bucket>/<key>.
CheckpointFileKey(index) ==
    SubSeq(CheckpointPath(index), Len(bucket_name) + 2,
           Len(CheckpointPath(index))) \o "/" \o keras_model_filename

(***************************************************************************)
(* Initial states: the environment the script is started in and the bucket *)
(* it finds.  The bucket may hold the dataset at train_data and artifacts  *)
(* an earlier run left at scaler_output and model_output.                  *)
(***************************************************************************)
EmptyConfig == [k \in {} |-> 0]
NoDataset == [path |-> "", scaledBy |-> 0, concat |-> FALSE]
NoScaler == [fitted |-> FALSE, gen |-> 0]

OldArtifacts ==
    [k \in {scaler_output, model_output} |-> Obj("old", 0)]

InitialStore(dataPresent, oldPresent) ==
    LET base == IF oldPresent THEN OldArtifacts ELSE EmptyStore
    IN  IF dataPresent THEN Put(base, train_data, Obj("csv", 0)) ELSE base

IntStrings(lo, hi) == {<<ToString(n)>> : n \in lo..hi}

\* Environments that vary the storage keys and the shape of the run.  The
\* bucket is one whose name recurs inside the storage path "<bucket>/ray/".
PathEnvs ==
    [USE_GPU : {Unset},
     NUM_WORKERS : {Unset} \cup IntStrings(2, MaxWorkers),
     NUM_EPOCHS : {Unset} \cup IntStrings(0, MaxEpochs),
     BATCH_SIZE : {Unset},
     LEARNING_RATE : {Unset},
     AWS_S3_BUCKET : {<<"ray">>},
     TRAIN_DATA : {Unset, <<"models/fraud/1/scaler.pkl">>},
     MODEL_OUTPUT : {Unset, <<"data/">>},
     MODEL_OUTPUT_FILENAME : {Unset, <<"scaler.pkl">>, <<"train.csv">>}]

\* Environments that vary the hyperparameters.
HyperEnvs ==
    [USE_GPU : {Unset, <<"true">>, <<"True">>, <<"TRUE">>, <<"false">>, <<"1">>},
     NUM_WORKERS : {Unset} \cup IntStrings(2, MaxWorkers),
     NUM_EPOCHS : {Unset, <<"x">>} \cup IntStrings(1, MaxEpochs),
     BATCH_SIZE : {Unset, <<"32">>, <<"batch">>},
     LEARNING_RATE : {Unset, <<"5">>},
     AWS_S3_BUCKET : {<<"fraud">>},
     TRAIN_DATA : {Unset},
     MODEL_OUTPUT : {Unset},
     MODEL_OUTPUT_FILENAME : {Unset}]

InitWith(envs, dataChoices, oldChoices) ==
    /\ env \in envs
    /\ \E d \in dataChoices, o \in oldChoices : store = InitialStore(d, o)
    /\ store0 = store
    /\ pc = "config"
    /\ failed = FALSE
    /\ config = EmptyConfig
    /\ train_dataset = NoDataset
    /\ scaler = NoScaler
    /\ trainer = <<>>
    /\ workers = <<>>
    /\ reported = -1
    /\ checkpoints = <<>>
    /\ result = <<>>
    /\ keras_local = <<>>
    /\ onnx_local = <<>>
    /\ scalerUploads = 0
    /\ modelUploads = 0

Init == InitWith(PathEnvs, BOOLEAN, BOOLEAN)
InitConfig == InitWith(HyperEnvs, {TRUE}, {FALSE})

(***************************************************************************)
(* The module-level pipeline up to trainer.fit().                          *)
(***************************************************************************)
Running(stage) == pc = stage /\ ~failed

\* lines 23-53 and 156
ResolveConfig ==
    /\ Running("config")
    /\ IF ConfigParses
       THEN /\ config' = ("lr" :> learning_rate) @@ ("batch_size" :> batch_size)
                          @@ ("epochs" :> num_epochs)
            /\ pc' = "read_csv"
            /\ UNCHANGED failed
       ELSE /\ failed' = TRUE
            /\ UNCHANGED <<config, pc>>
    /\ UNCHANGED <<env, store, store0, train_dataset, scaler, trainer, workers,
                   reported, checkpoints, result, keras_local, onnx_local,
                   scalerUploads, modelUploads>>

\* lines 154, 158-160: the read resolves the path and raises if it is missing
ReadCsv ==
    /\ Running("read_csv")
    /\ IF train_data \in DOMAIN store
       THEN /\ train_dataset' = [path |-> train_data, scaledBy |-> 0,
                                 concat |-> FALSE]
            /\ pc' = "scaler"
            /\ UNCHANGED failed
       ELSE /\ failed' = TRUE
            /\ UNCHANGED <<train_dataset, pc>>
    /\ UNCHANGED <<env, store, store0, config, scaler, trainer, workers,
                   reported, checkpoints, result, keras_local, onnx_local,
                   scalerUploads, modelUploads>>

\* faulty variant: the result of fit_transform is not assigned back to train_dataset
ScalerFitTransform_ResultDropped ==
    /\ Running("scaler")
    /\ scaler' = [fitted |-> TRUE, gen |-> scaler.gen + 1]
    /\ pc' = "concat"
    /\ UNCHANGED <<env, store, store0, failed, config, train_dataset, trainer,
                   workers, reported, checkpoints, result, keras_local,
                   onnx_local, scalerUploads, modelUploads>>

\* lines 161, 163
ScalerFitTransform ==
    /\ Running("scaler")
    /\ scaler' = [fitted |-> TRUE, gen |-> scaler.gen + 1]
    /\ train_dataset' = [train_dataset EXCEPT !.scaledBy = scaler'.gen]
    /\ pc' = "concat"
    /\ UNCHANGED <<env, store, store0, failed, config, trainer, workers,
                   reported, checkpoints, result, keras_local, onnx_local,
                   scalerUploads, modelUploads>>

\* lines 162, 164
ConcatFitTransform ==
    /\ Running("concat")
    /\ train_dataset' = [train_dataset EXCEPT !.concat = TRUE]
    /\ pc' = "trainer"
    /\ UNCHANGED <<env, store, store0, failed, config, scaler, trainer, workers,
                   reported, checkpoints, result, keras_local, onnx_local,
                   scalerUploads, modelUploads>>

\* faulty variant: the metadata serializes a newly constructed, unfitted scaler
TrainerInit_FreshScaler ==
    /\ Running("trainer")
    /\ trainer' = <<[train_loop_config |-> config,
                     num_workers |-> num_workers,
                     use_gpu |-> use_gpu,
                     train |-> train_dataset,
                     preprocessor_pkl |-> NoScaler]>>
    /\ pc' = "fit"
    /\ UNCHANGED <<env, store, store0, failed, config, train_dataset, scaler,
                   workers, reported, checkpoints, result, keras_local,
                   onnx_local, scalerUploads, modelUploads>>

\* faulty variant: the scaler is uploaded as soon as it is fitted, before fit()
TrainerInit_SavesScaler ==
    /\ Running("trainer")
    /\ trainer' = <<[train_loop_config |-> config,
                     num_workers |-> num_workers,
                     use_gpu |-> use_gpu,
                     train |-> train_dataset,
                     preprocessor_pkl |-> scaler]>>
    /\ store' = Put(store, scaler_output, Obj("scaler", scaler.gen))
    /\ scalerUploads' = scalerUploads + 1
    /\ pc' = "fit"
    /\ UNCHANGED <<env, store0, failed, config, train_dataset, scaler,
                   workers, reported, checkpoints, result, keras_local,
                   onnx_local, modelUploads>>

\* lines 166-179
TrainerInit ==
    /\ Running("trainer")
    /\ trainer' = <<[train_loop_config |-> config,
                     num_workers |-> num_workers,
                     use_gpu |-> use_gpu,
                     train |-> train_dataset,
                     preprocessor_pkl |-> scaler]>>
    /\ pc' = "fit"
    /\ UNCHANGED <<env, store, store0, failed, config, train_dataset, scaler,
                   workers, reported, checkpoints, result, keras_local,
                   onnx_local, scalerUploads, modelUploads>>

(***************************************************************************)
(* trainer.fit(): the framework starts train_func once per worker, the     *)
(* workers run concurrently, and fit() returns when all have returned.     *)
(***************************************************************************)
\* config.get(key, default)
ConfigGet(cfg, key, default) == IF key \in DOMAIN cfg THEN cfg[key] ELSE default

NewWorker ==
    [phase |-> "start", batch_size |-> 0, epochs |-> 0, epoch |-> 0,
     steps |-> 0, reports |-> 0, results |-> <<>>, shard |-> NoDataset]

Rank0 == 1

\* where the for loop of line 110 goes with `epoch` passes done
LoopPhase(epoch, epochs) == IF epoch < epochs THEN "fit" ELSE "return"

\* line 180: fit() launches the workers
FitStart ==
    /\ Running("fit")
    /\ workers' = [w \in 1..trainer[1].num_workers |-> NewWorker]
    /\ pc' = "fitting"
    /\ UNCHANGED <<env, store, store0, failed, config, train_dataset, scaler,
                   trainer, reported, checkpoints, result, keras_local,
                   onnx_local, scalerUploads, modelUploads>>

\* lines 95-108
WorkerStart(w) ==
    /\ Running("fitting")
    /\ workers[w].phase = "start"
    /\ LET bs == ConfigGet(trainer[1].train_loop_config, "batch_size", 64)
           ep == ConfigGet(trainer[1].train_loop_config, "epochs", 3)
       IN  workers' = [workers EXCEPT ![w] =
               [@ EXCEPT !.batch_size = bs, !.epochs = ep,
                         !.shard = trainer[1].train,
                         !.phase = LoopPhase(0, ep)]]
    /\ UNCHANGED <<env, store, store0, pc, failed, config, train_dataset,
                   scaler, trainer, reported, checkpoints, result, keras_local,
                   onnx_local, scalerUploads, modelUploads>>

\* faulty variant: model.fit is called without the ReportCheckpointCallback
WorkerFit_NoCallback(w) ==
    /\ Running("fitting")
    /\ workers[w].phase = "fit"
    /\ workers' = [workers EXCEPT ![w] =
           [@ EXCEPT !.steps = @ + 1,
                     !.results = Append(@, workers[w].epoch),
                     !.epoch = @ + 1,
                     !.phase = LoopPhase(workers[w].epoch + 1, workers[w].epochs)]]
    /\ UNCHANGED <<env, store, store0, pc, failed, config, train_dataset,
                   scaler, trainer, reported, checkpoints, result, keras_local,
                   onnx_local, scalerUploads, modelUploads>>

\* lines 110-118: one pass of model.fit over the shard
WorkerFit(w) ==
    /\ Running("fitting")
    /\ workers[w].phase = "fit"
    /\ workers' = [workers EXCEPT ![w] =
           [@ EXCEPT !.steps = @ + 1, !.phase = "report"]]
    /\ UNCHANGED <<env, store, store0, pc, failed, config, train_dataset,
                   scaler, trainer, reported, checkpoints, result, keras_local,
                   onnx_local, scalerUploads, modelUploads>>

\* line 119: ReportCheckpointCallback at the end of the pass saves the model
\* as model.keras into the next checkpoint directory and reports the metrics;
\* the report blocks until every worker has reported.
WorkerReport(w) ==
    /\ Running("fitting")
    /\ workers[w].phase = "report"
    /\ store' = Put(store, CheckpointFileKey(Len(checkpoints)),
                    Obj("keras", Len(checkpoints)))
    /\ \E metric \in 0..MaxMetric :
           reported' = IF w = Rank0 THEN metric ELSE reported
    /\ workers' = [workers EXCEPT ![w] =
           [@ EXCEPT !.reports = @ + 1, !.phase = "barrier"]]
    /\ UNCHANGED <<env, store0, pc, failed, config, train_dataset, scaler,
                   trainer, checkpoints, result, keras_local, onnx_local,
                   scalerUploads, modelUploads>>

\* the framework registers the checkpoint of the round, with rank 0's metrics
\* and the trainer's metadata, once every worker has reported
RegisterCheckpoint ==
    /\ Running("fitting")
    /\ \A w \in DOMAIN workers :
           workers[w].phase = "barrier" /\ workers[w].reports = Len(checkpoints) + 1
    /\ checkpoints' = Append(checkpoints,
           [index |-> Len(checkpoints),
            path |-> CheckpointPath(Len(checkpoints)),
            metric |-> reported,
            preprocessor_pkl |-> trainer[1].preprocessor_pkl])
    /\ reported' = -1
    /\ UNCHANGED <<env, store, store0, pc, failed, config, train_dataset,
                   scaler, trainer, workers, result, keras_local, onnx_local,
                   scalerUploads, modelUploads>>

\* lines 117-121: model.fit returns, its history is appended, the loop goes on
WorkerResume(w) ==
    /\ Running("fitting")
    /\ workers[w].phase = "barrier"
    /\ workers[w].reports = Len(checkpoints)
    /\ workers' = [workers EXCEPT ![w] =
           [@ EXCEPT !.results = Append(@, workers[w].epoch),
                     !.epoch = @ + 1,
                     !.phase = LoopPhase(workers[w].epoch + 1, workers[w].epochs)]]
    /\ UNCHANGED <<env, store, store0, pc, failed, config, train_dataset,
                   scaler, trainer, reported, checkpoints, result, keras_local,
                   onnx_local, scalerUploads, modelUploads>>

\* line 122
WorkerReturn(w) ==
    /\ Running("fitting")
    /\ workers[w].phase = "return"
    /\ workers' = [workers EXCEPT ![w] = [@ EXCEPT !.phase = "returned"]]
    /\ UNCHANGED <<env, store, store0, pc, failed, config, train_dataset,
                   scaler, trainer, reported, checkpoints, result, keras_local,
                   onnx_local, scalerUploads, modelUploads>>

\* faulty variant: the checkpoint with the highest metric (the earliest such)
RECURSIVE BestIndex(_, _)
BestIndex(cps, n) ==
    IF n = 1 THEN 1
    ELSE IF cps[n].metric > cps[BestIndex(cps, n - 1)].metric THEN n
         ELSE BestIndex(cps, n - 1)

ResultCheckpoint_Best(cps) ==
    IF cps = <<>> THEN <<>> ELSE <<cps[BestIndex(cps, Len(cps))]>>

\* Result.checkpoint: the latest checkpoint registered, None if there is none
ResultCheckpoint(cps) == IF cps = <<>> THEN <<>> ELSE <<cps[Len(cps)]>>

\* faulty variant: fit() waits for rank 0 only
AllReturned_Rank0Only == workers[Rank0].phase = "returned"

AllReturned == \A w \in DOMAIN workers : workers[w].phase = "returned"

\* line 180: fit() returns
FitReturn ==
    /\ Running("fitting")
    /\ AllReturned
    /\ result' = <<[checkpoint |-> ResultCheckpoint(checkpoints)]>>
    /\ pc' = "metadata"
    /\ UNCHANGED <<env, store, store0, failed, config, train_dataset, scaler,
                   trainer, workers, reported, checkpoints, keras_local,
                   onnx_local, scalerUploads, modelUploads>>

(***************************************************************************)
(* After fit(): metadata, save_scalar, save_onnx_model.                    *)
(***************************************************************************)
\* faulty variant: save_scalar is not called before save_onnx_model
ReadMetadata_SkipsSaveScalar ==
    /\ Running("metadata")
    /\ IF result[1].checkpoint = <<>>
       THEN failed' = TRUE /\ UNCHANGED pc
       ELSE pc' = "download" /\ UNCHANGED failed
    /\ UNCHANGED <<env, store, store0, config, train_dataset, scaler, trainer,
                   workers, reported, checkpoints, result, keras_local,
                   onnx_local, scalerUploads, modelUploads>>

\* lines 181-183: result.checkpoint is None when nothing was reported
ReadMetadata ==
    /\ Running("metadata")
    /\ IF result[1].checkpoint = <<>>
       THEN failed' = TRUE /\ UNCHANGED pc
       ELSE pc' = "save_scalar" /\ UNCHANGED failed
    /\ UNCHANGED <<env, store, store0, config, train_dataset, scaler, trainer,
                   workers, reported, checkpoints, result, keras_local,
                   onnx_local, scalerUploads, modelUploads>>

\* faulty variant: the upload is given train_data as its key
save_scalar_OverDataset ==
    /\ Running("save_scalar")
    /\ store' = Put(store, train_data, Obj("scaler", scaler.gen))
    /\ scalerUploads' = scalerUploads + 1
    /\ pc' = "download"
    /\ UNCHANGED <<env, store0, failed, config, train_dataset, scaler, trainer,
                   workers, reported, checkpoints, result, keras_local,
                   onnx_local, modelUploads>>

\* lines 185, 125-133
save_scalar ==
    /\ Running("save_scalar")
    /\ store' = Put(store, scaler_output, Obj("scaler", scaler.gen))
    /\ scalerUploads' = scalerUploads + 1
    /\ pc' = "download"
    /\ UNCHANGED <<env, store0, failed, config, train_dataset, scaler, trainer,
                   workers, reported, checkpoints, result, keras_local,
                   onnx_local, modelUploads>>

\* lines 186, 136-144: download_file raises when the key is missing
DownloadCheckpoint ==
    /\ Running("download")
    /\ LET key == cp_s3_key(result[1].checkpoint[1].path)
       IN  IF key \in DOMAIN store
           THEN /\ keras_local' = <<store[key]>>
                /\ pc' = "convert"
                /\ UNCHANGED failed
           ELSE /\ failed' = TRUE
                /\ UNCHANGED <<keras_local, pc>>
    /\ UNCHANGED <<env, store, store0, config, train_dataset, scaler, trainer,
                   workers, reported, checkpoints, result, onnx_local,
                   scalerUploads, modelUploads>>

\* lines 145-148: load_model raises unless the file is a Keras model
ConvertToOnnx ==
    /\ Running("convert")
    /\ IF keras_local[1].kind = "keras"
       THEN /\ onnx_local' = <<Obj("onnx", keras_local[1].v)>>
            /\ pc' = "upload"
            /\ UNCHANGED failed
       ELSE /\ failed' = TRUE
            /\ UNCHANGED <<onnx_local, pc>>
    /\ UNCHANGED <<env, store, store0, config, train_dataset, scaler, trainer,
                   workers, reported, checkpoints, result, keras_local,
                   scalerUploads, modelUploads>>

\* faulty variant: the upload is given the prefix, without the file name, as its key
UploadModel_PrefixOnly ==
    /\ Running("upload")
    /\ store' = Put(store, model_output_prefix, onnx_local[1])
    /\ modelUploads' = modelUploads + 1
    /\ pc' = "done"
    /\ UNCHANGED <<env, store0, failed, config, train_dataset, scaler, trainer,
                   workers, reported, checkpoints, result, keras_local,
                   onnx_local, scalerUploads>>

\* lines 150-151
UploadModel ==
    /\ Running("upload")
    /\ store' = Put(store, model_output, onnx_local[1])
    /\ modelUploads' = modelUploads + 1
    /\ pc' = "done"
    /\ UNCHANGED <<env, store0, failed, config, train_dataset, scaler, trainer,
                   workers, reported, checkpoints, result, keras_local,
                   onnx_local, scalerUploads>>

\* any statement may raise (S3 or cluster error, worker failure inside fit):
\* the script stops at that statement
Raise ==
    /\ ~failed
    /\ pc # "done"
    /\ failed' = TRUE
    /\ UNCHANGED <<env, store, store0, pc, config, train_dataset, scaler,
                   trainer, workers, reported, checkpoints, result, keras_local,
                   onnx_local, scalerUploads, modelUploads>>

\* the steps of a run in which nothing raises
Step ==
    \/ ResolveConfig
    \/ ReadCsv
    \/ ScalerFitTransform
    \/ ConcatFitTransform
    \/ TrainerInit
    \/ FitStart
    \/ \E w \in DOMAIN workers : WorkerStart(w)
    \/ \E w \in DOMAIN workers : WorkerFit(w)
    \/ \E w \in DOMAIN workers : WorkerReport(w)
    \/ \E w \in DOMAIN workers : WorkerResume(w)
    \/ \E w \in DOMAIN workers : WorkerReturn(w)
    \/ RegisterCheckpoint
    \/ FitReturn
    \/ ReadMetadata
    \/ save_scalar
    \/ DownloadCheckpoint
    \/ ConvertToOnnx
    \/ UploadModel

Next == Step \/ Raise

Spec == Init /\ [][Next]_vars
SpecConfig == InitConfig /\ [][Next]_vars
FairSpec == Init /\ [][Next]_vars /\ WF_vars(Step)

(***************************************************************************)
(* Properties.                                                             *)
(***************************************************************************)
Stages == <<"config", "read_csv", "scaler", "concat", "trainer", "fit",
            "fitting", "metadata", "save_scalar", "download", "convert",
            "upload", "done">>

StageNo(stage) == CHOOSE i \in 1..Len(Stages) : Stages[i] = stage

\* the pipeline has reached the statement `stage` (it may have raised there)
Reached(stage) == StageNo(pc) >= StageNo(stage)

\* the value an integer hyperparameter must have: its variable, else the default
Expected(name, default) ==
    IF env[name] = Unset THEN default ELSE IntOf(env[name][1])

\* "true" in any mix of cases, letter by letter
IsTrueAnyCase(s) ==
    /\ Len(s) = 4
    /\ CharAt(s, 1) \in {"t", "T"}
    /\ CharAt(s, 2) \in {"r", "R"}
    /\ CharAt(s, 3) \in {"u", "U"}
    /\ CharAt(s, 4) \in {"e", "E"}

Scaled == [path |-> train_data, scaledBy |-> 1, concat |-> TRUE]

\* C1: the scaler is fitted before trainer.fit() is called and before any
\* worker runs train_func, and the dataset the trainer holds under "train",
\* which is the shard source of every worker, is the scaled and concatenated
\* dataset, never the raw one.
C1_ScalerFitBeforeTraining ==
    /\ Reached("fit") =>
           /\ scaler.fitted
           /\ trainer # <<>>
           /\ trainer[1].train = Scaled
    /\ \A w \in DOMAIN workers :
           /\ scaler.fitted
           /\ workers[w].phase # "start" => workers[w].shard = Scaled

\* C1 witness: a worker has run a pass of train_func and is about to report
C1_Witness ==
    /\ ~failed
    /\ \E w \in DOMAIN workers : workers[w].phase = "report"

\* C2: save_onnx_model is started only after fit() has returned, when every
\* worker has returned from train_func with all its epochs done, and the
\* model is uploaded to model_output at most once, exactly once in a run
\* that completes.
C2_ExportAfterTraining ==
    /\ Reached("download") =>
           /\ result # <<>>
           /\ \A w \in DOMAIN workers :
                  /\ workers[w].phase = "returned"
                  /\ workers[w].epoch = Expected("NUM_EPOCHS", 2)
           /\ Len(workers) = Expected("NUM_WORKERS", 1)
    /\ modelUploads = (IF pc = "done" THEN 1 ELSE 0)
    /\ ~Reached("upload") => onnx_local = <<>>
    /\ ~Reached("convert") => keras_local = <<>>

\* C2 witness: a run of several workers and epochs has completed its export
C2_Witness ==
    /\ pc = "done"
    /\ Len(workers) >= 2
    /\ \A w \in DOMAIN workers : workers[w].epoch >= 2

\* C3 as stated: the checkpoint handed to save_onnx_model has the best
\* metric among all checkpoints reported during the run.
C3_BestCheckpointExported ==
    Reached("save_scalar") =>
        \A i \in DOMAIN checkpoints :
            checkpoints[i].metric <= result[1].checkpoint[1].metric

\* C3 amended: the checkpoint handed to save_onnx_model, downloaded,
\* converted and uploaded is the last checkpoint reported during the run,
\* whatever its metric.
C3_LatestCheckpointExported ==
    /\ Reached("save_scalar") =>
           /\ result[1].checkpoint[1] = checkpoints[Len(checkpoints)]
           /\ result[1].checkpoint[1].index = Expected("NUM_EPOCHS", 2) - 1
    /\ keras_local # <<>> => keras_local[1] = Obj("keras", Len(checkpoints) - 1)
    /\ onnx_local # <<>> => onnx_local[1] = Obj("onnx", Len(checkpoints) - 1)
    /\ pc = "done" =>
           Get(store, model_output) = Obj("onnx", Len(checkpoints) - 1)

\* C3 witness: a run has exported although its first checkpoint had the better metric
C3_Witness ==
    /\ pc = "done"
    /\ Len(checkpoints) = 2
    /\ checkpoints[1].metric > checkpoints[2].metric

\* C4 as stated, in its final state: a run that completes leaves the ONNX
\* model at model_output and the fitted scaler at scaler_output.
C4_BothArtifactsWhenDone ==
    pc = "done" =>
        /\ Get(store, model_output).kind = "onnx"
        /\ Get(store, scaler_output) = Obj("scaler", 1)

ArtifactsExported ==
    /\ pc = "done"
    /\ Get(store, model_output).kind = "onnx"
    /\ model_output_filename # "scaler.pkl" =>
           Get(store, scaler_output) = Obj("scaler", 1)

\* C4 amended: every run in which no statement raises eventually completes
\* with the ONNX model at model_output and, unless MODEL_OUTPUT_FILENAME is
\* "scaler.pkl" (the two keys are then one), the fitted scaler at
\* scaler_output.
C4_EventuallyExported == <>(failed \/ ArtifactsExported)

\* C4 witness: a run with distinct output keys has completed, both artifacts uploaded
C4_Witness ==
    /\ ArtifactsExported
    /\ model_output # scaler_output
    /\ Get(store0, model_output) = Absent

\* C5: each worker runs exactly config["epochs"] = NUM_EPOCHS passes (the
\* fallback of train_func is not used); every pass is followed by a
\* checkpoint report before the next pass begins; train_func returns one
\* history entry per epoch.
C5_EpochsAndReports ==
    /\ trainer # <<>> => "epochs" \in DOMAIN trainer[1].train_loop_config
    /\ \A w \in DOMAIN workers :
           workers[w].phase # "start" =>
               /\ workers[w].epochs = Expected("NUM_EPOCHS", 2)
               /\ workers[w].epoch <= workers[w].epochs
               /\ Len(workers[w].results) = workers[w].epoch
               /\ workers[w].steps =
                      workers[w].epoch
                          + (IF workers[w].phase \in {"report", "barrier"}
                             THEN 1 ELSE 0)
               /\ workers[w].reports =
                      workers[w].epoch
                          + (IF workers[w].phase = "barrier" THEN 1 ELSE 0)
               /\ workers[w].phase \in {"return", "returned"} =>
                      /\ workers[w].epoch = workers[w].epochs
                      /\ workers[w].results =
                             [i \in 1..workers[w].epochs |-> i - 1]

\* C5 witness: a worker has returned after at least two passes and reports
C5_Witness ==
    \E w \in DOMAIN workers :
        /\ workers[w].phase = "returned"
        /\ workers[w].reports >= 2
        /\ workers[w].epochs # 3

\* C6 as stated: each of learning rate, batch size, epoch count, worker
\* count and accelerator flag takes the value of its environment variable
\* when that is set.
C6_AllFromEnvironment ==
    Reached("read_csv") =>
        /\ config["lr"] = Expected("LEARNING_RATE", 1)
        /\ config["batch_size"] = Expected("BATCH_SIZE", 64)
        /\ config["epochs"] = Expected("NUM_EPOCHS", 2)

\* C6 amended: batch size, epoch count, worker count and accelerator flag
\* take the value of their environment variable, else 64, 2, 1 and false
\* (the flag is true exactly when USE_GPU is "true" in any case), and these
\* are the values the run uses; the learning rate is the constant 1e-3
\* whatever the environment holds.
C6_HyperparametersResolved ==
    /\ Reached("read_csv") =>
           config = [k \in {"lr", "batch_size", "epochs"} |->
                        CASE k = "lr" -> 1
                          [] k = "batch_size" -> Expected("BATCH_SIZE", 64)
                          [] k = "epochs" -> Expected("NUM_EPOCHS", 2)]
    /\ trainer # <<>> =>
           /\ trainer[1].train_loop_config = config
           /\ trainer[1].num_workers = Expected("NUM_WORKERS", 1)
           /\ trainer[1].use_gpu =
                  (env["USE_GPU"] # Unset /\ IsTrueAnyCase(env["USE_GPU"][1]))
    /\ Reached("fitting") => Len(workers) = Expected("NUM_WORKERS", 1)
    /\ \A w \in DOMAIN workers :
           workers[w].phase # "start" =>
               /\ workers[w].batch_size = Expected("BATCH_SIZE", 64)
               /\ workers[w].epochs = Expected("NUM_EPOCHS", 2)

\* C6 witness: a two-worker run with BATCH_SIZE, USE_GPU, LEARNING_RATE and NUM_EPOCHS set has trained
C6_Witness ==
    /\ env["BATCH_SIZE"] = <<"32">>
    /\ env["USE_GPU"] = <<"True">>
    /\ env["LEARNING_RATE"] # Unset
    /\ env["NUM_EPOCHS"] = <<"1">>
    /\ Len(workers) = 2
    /\ \A w \in DOMAIN workers :
           /\ workers[w].phase = "returned"
           /\ workers[w].batch_size = 32
           /\ workers[w].steps = 1
    /\ trainer[1].use_gpu

\* C7 as stated: for every configuration, the object at train_data is never
\* written by the run.
C7_DatasetNeverWritten == Get(store, train_data) = Get(store0, train_data)

\* C7 amended: provided the key train_data differs from scaler_output and
\* from model_output, no statement of the run writes or deletes the object
\* at train_data.
C7_DatasetUnchangedUnlessOutputKey ==
    train_data \notin {scaler_output, model_output} =>
        /\ Get(store, train_data) = Get(store0, train_data)
        /\ DOMAIN store0 \subseteq DOMAIN store

\* C7 witness: a run with a configured output prefix has completed, the dataset intact
C7_Witness ==
    /\ pc = "done"
    /\ train_data \notin {scaler_output, model_output}
    /\ Get(store, train_data) = Obj("csv", 0)
    /\ env["MODEL_OUTPUT"] # Unset

\* C8 as stated: in every reachable state this run's model at model_output
\* implies this run's scaler at scaler_output.
C8_ModelImpliesScaler ==
    Get(store, model_output).kind = "onnx" =>
        Get(store, scaler_output).kind = "scaler"

\* C8 amended: provided model_output and scaler_output are different keys
\* (MODEL_OUTPUT_FILENAME is not "scaler.pkl"), this run's model at
\* model_output implies this run's scaler at scaler_output, in every state,
\* failed ones included.
C8_ModelImpliesScalerDistinctKeys ==
    model_output # scaler_output =>
        /\ Get(store, model_output).kind = "onnx" =>
               Get(store, scaler_output) = Obj("scaler", 1)
        /\ modelUploads <= scalerUploads

\* C8 witness: model and scaler of this run are both present, replacing older artifacts
C8_Witness ==
    /\ model_output # scaler_output
    /\ Get(store, model_output).kind = "onnx"
    /\ Get(store, scaler_output).kind = "scaler"
    /\ Get(store0, scaler_output) = Obj("old", 0)

\* C8, second half: the converse fails; this state (scaler uploaded, the
\* export raised, no model) is reachable.
C8_ScalerWithoutModel ==
    /\ failed
    /\ pc \in {"download", "convert", "upload"}
    /\ Get(store, scaler_output).kind = "scaler"
    /\ Get(store, model_output).kind # "onnx"

\* C9: when fit() or an earlier statement raises, the objects at
\* scaler_output and model_output are as the run found them, whatever
\* checkpoints the workers have written.
C9_NoExportOnEarlyFailure ==
    (failed /\ ~Reached("metadata")) =>
        /\ Get(store, scaler_output) = Get(store0, scaler_output)
        /\ Get(store, model_output) = Get(store0, model_output)
        /\ scalerUploads = 0
        /\ modelUploads = 0

\* C9 witness: fit() raised after a checkpoint had been written
C9_Witness ==
    /\ failed
    /\ pc = "fitting"
    /\ Len(checkpoints) >= 1
    /\ CheckpointFileKey(0) \in DOMAIN store
    /\ Get(store0, scaler_output) = Obj("old", 0)

\* C10: the scaler is fitted exactly once, and the state serialized into the
\* checkpoint metadata, the state that transformed the training dataset and
\* the state pickled and uploaded by save_scalar are that one fitted state.
C10_OneScalerState ==
    /\ scaler = (IF Reached("concat") THEN [fitted |-> TRUE, gen |-> 1]
                 ELSE NoScaler)
    /\ trainer # <<>> =>
           /\ trainer[1].preprocessor_pkl = scaler
           /\ trainer[1].train.scaledBy = scaler.gen
    /\ \A i \in DOMAIN checkpoints : checkpoints[i].preprocessor_pkl = scaler
    /\ scalerUploads = (IF Reached("download") THEN 1 ELSE 0)
    /\ pc \in {"download", "convert", "upload"} =>
           Get(store, scaler_output) = Obj("scaler", trainer[1].train.scaledBy)

\* C10 witness: the scaler has been uploaded and the model is about to be
C10_Witness ==
    /\ pc = "upload"
    /\ Get(store, scaler_output) = Obj("scaler", 1)
    /\ result[1].checkpoint[1].preprocessor_pkl = [fitted |-> TRUE, gen |-> 1]

====
